---- MODULE Spec2Model ----
(***************************************************************************)
(* A model of cursorsort (src/src/lib.rs): the in-place, recursive sort    *)
(* that places a pivot by letting two cursors converge.                    *)
(*                                                                         *)
(* The slice is a sequence of elements; an element carries its value and   *)
(* the position it had in the input (its identity, since a Rust swap moves *)
(* objects).  The recursion is the call stack: one frame per active call,  *)
(* holding the sub-slice (base, len), the two cursors and the position in  *)
(* the function body.  The element type T is either the integers with      *)
(* their usual (total) order, as in the unit tests, or the positive        *)
(* integers ordered by divisibility, a genuine partial order.              *)
(***************************************************************************)
EXTENDS Integers, Sequences, FiniteSets

\* Longest input slice.
MaxLen == 4
\* Element values are 1..MaxVal.
MaxVal == 4

VARIABLES
    T,           \* the element type: "Int" (total order) or "Div" (partial)
    input,       \* the values the caller's slice holds before each call
    descending,  \* the flag of the current (or last) call
    arr,         \* the slice, sorted in place
    stack,       \* the call stack of cursorsort; the last frame is running
    mode,        \* "ready", "running", "returned" or "panicked"
    ascOut,      \* the slice as the ascending call left it
    pivots       \* <<index, element>> of every pivot placed in this call

vars == <<T, input, descending, arr, stack, mode, ascOut, pivots>>

Values == 1..MaxVal

Types == {"Int", "Div"}

Inputs == UNION {[1..n -> Values] : n \in 0..MaxLen}

\* No element: the value of a frame's `last` before the cursors are set.
NoElem == [id |-> 0, val |-> 0]

\* The caller's slice: the i-th object holds input[i].
Slice(in) == [i \in 1..Len(in) |-> [id |-> i, val |-> in[i]]]

Vals(a) == [i \in 1..Len(a) |-> a[i].val]

----------------------------------------------------------------------------
\* PartialOrd::partial_cmp of the element type.

partial_cmp(t, x, y) ==
    IF t = "Int"
    THEN IF x < y THEN "Less" ELSE IF x > y THEN "Greater" ELSE "Equal"
    ELSE IF x = y THEN "Equal"
         ELSE IF y % x = 0 THEN "Less"
         ELSE IF x % y = 0 THEN "Greater"
         ELSE "None"

Comparable(t, x, y) == partial_cmp(t, x, y) # "None"

\* x <= y and x >= y of PartialOrd.
Le(t, x, y) == partial_cmp(t, x, y) \in {"Less", "Equal"}
Ge(t, x, y) == partial_cmp(t, x, y) \in {"Greater", "Equal"}

----------------------------------------------------------------------------
\* The body of cursorsort.

(* mutant: the position test of the ascending Greater arm is dropped *)
ShouldSwap_NoPositionTest(desc, ord, c1, c2) ==
    IF ~desc
    THEN \/ ord = "Greater"
         \/ ord = "Less" /\ c1 > c2
    ELSE \/ ord = "Greater" /\ c1 > c2
         \/ ord = "Less" /\ c1 < c2

(* mutant: the descending branch compares like the ascending one *)
ShouldSwap_AscendingOnly(desc, ord, c1, c2) ==
    \/ ord = "Greater" /\ c1 < c2
    \/ ord = "Less" /\ c1 > c2

(* mutant: equal elements are swapped too *)
ShouldSwap_SwapsEqual(desc, ord, c1, c2) ==
    IF ~desc
    THEN \/ ord \in {"Greater", "Equal"} /\ c1 < c2
         \/ ord = "Less" /\ c1 > c2
    ELSE \/ ord = "Greater" /\ c1 > c2
         \/ ord \in {"Less", "Equal"} /\ c1 < c2

\* The value of `swap` after the two match statements.
ShouldSwap(desc, ord, c1, c2) ==
    IF ~desc
    THEN \/ ord = "Greater" /\ c1 < c2
         \/ ord = "Less" /\ c1 > c2
    ELSE \/ ord = "Greater" /\ c1 > c2
         \/ ord = "Less" /\ c1 < c2

(* mutant: the second store of the swap is lost *)
SwapElems_Overwrite(a, i, j) == [a EXCEPT ![i] = a[j]]

\* arr.swap(i, j), on 1-based positions of the whole slice.
SwapElems(a, i, j) == [a EXCEPT ![i] = a[j], ![j] = a[i]]

(* mutant: the cursor roles are not exchanged after the swap *)
SwapCursors_Keep(c1, c2) == <<c1, c2>>

\* (cur1, cur2) = (cur2, cur1)
SwapCursors(c1, c2) == <<c2, c1>>

(* mutant: cur2 starts one past the last index *)
InitCur2_Len(len) == len

\* let mut cur2 = arr.len() - 1
InitCur2(len) == len - 1

(* mutant: the cursor always moves up *)
NextCur1_AlwaysUp(c1, c2) == c1 + 1

(* mutant: the cursor moves two steps *)
NextCur1_TwoSteps(c1, c2) == IF c1 < c2 THEN c1 + 2 ELSE c1 - 2

\* if cur1 < cur2 { cur1 += 1 } else { cur1 -= 1 }
NextCur1(c1, c2) == IF c1 < c2 THEN c1 + 1 ELSE c1 - 1

\* &mut arr[..cur1]
LeftLen(c1) == c1

(* mutant: the right recursion starts at the pivot *)
RightStart_AtPivot(c1) == c1

\* &mut arr[cur1 + 1..]
RightStart(c1) == c1 + 1

\* An activation of cursorsort on arr[base .. base+len).  iters counts the
\* iterations of its loop and last remembers the object that was last in the
\* range when its pass started; neither is read by the sort.
NewFrame(base, len) ==
    [base |-> base, len |-> len, cur1 |-> 0, cur2 |-> 0, pc |-> "entry",
     iters |-> 0, last |-> NoElem]

Top == stack[Len(stack)]

\* arr[i] as the running call sees it (0-based within its sub-slice).
At(f, i) == arr[f.base + i + 1]

InRange(f, i) == i >= 0 /\ i < f.len

SetTop(f) == [stack EXCEPT ![Len(stack)] = f]

Push(f, g) == Append(SetTop(f), g)

\* The running call returns to its caller.
Pop ==
    /\ stack' = SubSeq(stack, 1, Len(stack) - 1)
    /\ mode' = IF Len(stack) = 1 THEN "returned" ELSE mode
    /\ ascOut' = IF Len(stack) = 1 /\ ~descending THEN arr ELSE ascOut

Panic ==
    /\ mode' = "panicked"
    /\ UNCHANGED <<arr, stack, ascOut, pivots>>

----------------------------------------------------------------------------
Init ==
    /\ T \in Types
    /\ input \in Inputs
    /\ descending = FALSE
    /\ arr = Slice(input)
    /\ stack = <<>>
    /\ mode = "ready"
    /\ ascOut = <<>>
    /\ pivots = {}

\* The caller sorts its slice ascending, then the same values descending.
Call(d) ==
    /\ \/ mode = "ready" /\ ~d
       \/ mode = "returned" /\ ~descending /\ d
    /\ descending' = d
    /\ arr' = Slice(input)
    /\ stack' = <<NewFrame(0, Len(input))>>
    /\ mode' = "running"
    /\ pivots' = {}
    /\ UNCHANGED <<T, input, ascOut>>

\* if arr.len() <= 1 { return; }  let mut cur1 = 0; let mut cur2 = len - 1;
Enter ==
    /\ mode = "running"
    /\ Top.pc = "entry"
    /\ IF Top.len <= 1
       THEN Pop /\ UNCHANGED <<arr, pivots>>
       ELSE /\ stack' = SetTop([Top EXCEPT !.cur1 = 0,
                                           !.cur2 = InitCur2(Top.len),
                                           !.pc = "while",
                                           !.last = At(Top, Top.len - 1)])
            /\ UNCHANGED <<arr, mode, ascOut, pivots>>
    /\ UNCHANGED <<T, input, descending>>

\* One test of the loop condition that holds, the comparison and the swap.
Compare ==
    /\ mode = "running"
    /\ Top.pc = "while"
    /\ Top.cur1 # Top.cur2
    /\ IF ~(InRange(Top, Top.cur1) /\ InRange(Top, Top.cur2))
       THEN Panic
       ELSE LET f == Top
                ord == partial_cmp(T, At(f, f.cur1).val, At(f, f.cur2).val)
                swap == ShouldSwap(descending, ord, f.cur1, f.cur2)
                cur == IF swap THEN SwapCursors(f.cur1, f.cur2)
                               ELSE <<f.cur1, f.cur2>>
            IN  /\ arr' = IF swap
                          THEN SwapElems(arr, f.base + f.cur1 + 1,
                                              f.base + f.cur2 + 1)
                          ELSE arr
                /\ stack' = SetTop([f EXCEPT !.cur1 = cur[1], !.cur2 = cur[2],
                                             !.pc = "advance"])
                /\ UNCHANGED <<mode, ascOut, pivots>>
    /\ UNCHANGED <<T, input, descending>>

\* The step of cur1 toward cur2.  cur1 is a usize: cur1 -= 1 at 0 panics
\* (and where overflow checks are off it wraps, and the next arr[cur1] panics).
Advance ==
    /\ mode = "running"
    /\ Top.pc = "advance"
    /\ IF NextCur1(Top.cur1, Top.cur2) < 0
       THEN Panic
       ELSE /\ stack' = SetTop([Top EXCEPT
                                  !.cur1 = NextCur1(Top.cur1, Top.cur2),
                                  !.iters = Top.iters + 1,
                                  !.pc = "while"])
            /\ UNCHANGED <<arr, mode, ascOut, pivots>>
    /\ UNCHANGED <<T, input, descending>>

\* The loop ends with cur1 == cur2; cursorsort(&mut arr[..cur1], descending)
RecurseLeft ==
    /\ mode = "running"
    /\ Top.pc = "while"
    /\ Top.cur1 = Top.cur2
    /\ IF LeftLen(Top.cur1) > Top.len
       THEN Panic
       ELSE /\ stack' = Push([Top EXCEPT !.pc = "right"],
                             NewFrame(Top.base, LeftLen(Top.cur1)))
            /\ pivots' = IF InRange(Top, Top.cur1)
                         THEN pivots \cup {<<Top.base + Top.cur1 + 1,
                                             At(Top, Top.cur1)>>}
                         ELSE pivots
            /\ UNCHANGED <<arr, mode, ascOut>>
    /\ UNCHANGED <<T, input, descending>>

\* cursorsort(&mut arr[cur1 + 1..], descending)
RecurseRight ==
    /\ mode = "running"
    /\ Top.pc = "right"
    /\ IF RightStart(Top.cur1) > Top.len
       THEN Panic
       ELSE /\ stack' = Push([Top EXCEPT !.pc = "return"],
                             NewFrame(Top.base + RightStart(Top.cur1),
                                      Top.len - RightStart(Top.cur1)))
            /\ UNCHANGED <<arr, mode, ascOut, pivots>>
    /\ UNCHANGED <<T, input, descending>>

\* The end of the function body.
Return ==
    /\ mode = "running"
    /\ Top.pc = "return"
    /\ Pop
    /\ UNCHANGED <<T, input, descending, arr, pivots>>

Next ==
    \/ \E d \in BOOLEAN : Call(d)
    \/ Enter
    \/ Compare
    \/ Advance
    \/ RecurseLeft
    \/ RecurseRight
    \/ Return

Spec == Init /\ [][Next]_vars

\* A call runs to completion on the calling thread.
FairSpec == Spec /\ WF_vars(Next)

----------------------------------------------------------------------------
\* Vocabulary of the properties.

Reverse(s) == [i \in 1..Len(s) |-> s[Len(s) + 1 - i]]

\* How often value v occurs in the sequence of values s.
Count(s, v) == Cardinality({i \in 1..Len(s) : s[i] = v})

\* a is a rearrangement of the objects of b.
IsPermutation(a, b) ==
    /\ Len(a) = Len(b)
    /\ \A i \in 1..Len(b) : Cardinality({j \in 1..Len(a) : a[j] = b[i]}) = 1

\* x before y is what the direction asks for.
InOrder(x, y) == IF descending THEN Ge(T, x, y) ELSE Le(T, x, y)

\* The values s are ordered for the direction, every pair being comparable.
Ordered(s) == \A i, j \in 1..Len(s) : i < j => InOrder(s[i], s[j])

NoIncomparable(s) == \A i, j \in 1..Len(s) : Comparable(T, s[i], s[j])

Running == mode = "running"

\* The running call is inside its partitioning pass.
InPass == Running /\ Top.pc \in {"while", "advance"}

\* The pass of the running call has just ended with cur1 == cur2.
PassEnded == Running /\ Top.pc = "while" /\ Top.cur1 = Top.cur2

Dist(f) == IF f.cur1 < f.cur2 THEN f.cur2 - f.cur1 ELSE f.cur1 - f.cur2

\* The positions (1-based, in the whole slice) of a frame's sub-slice.
Range(f) == (f.base + 1)..(f.base + f.len)

\* A step of the running call that stays in the same frame.
SameFrame == Running /\ mode' = "running" /\ Len(stack') = Len(stack)

----------------------------------------------------------------------------
\* C1: when a call on elements of a totally ordered type returns, the slice
\* is the reference sorted sequence of the input: a rearrangement of its
\* values that is non-decreasing (ascending) or non-increasing (descending).
C1_SortedTotalOrder ==
    (mode = "returned" /\ T = "Int") =>
        /\ Len(arr) = Len(input)
        /\ \A v \in Values : Count(Vals(arr), v) = Count(input, v)
        /\ \A i, j \in 1..Len(arr) :
              i < j => IF descending THEN arr[i].val >= arr[j].val
                                     ELSE arr[i].val <= arr[j].val

C1_Witness ==
    /\ mode = "returned" /\ T = "Int" /\ descending
    /\ input = <<2, 1, 3, 2>>
    /\ Vals(arr) = <<3, 2, 2, 1>>

\* C2: when a call returns, every pair of positions i < j holding comparable
\* elements is in the requested order, for every element type, partial
\* orders included.
C2_ComparablePairsOrdered ==
    mode = "returned" =>
        \A i, j \in 1..Len(arr) :
            (i < j /\ Comparable(T, arr[i].val, arr[j].val))
                => InOrder(arr[i].val, arr[j].val)

\* C3: in every state of a call and at return the slice is a permutation of
\* the input: same length, each input object exactly once, same values.
C3_Permutation ==
    /\ IsPermutation(arr, Slice(input))
    /\ \A v \in Values : Count(Vals(arr), v) = Count(input, v)

C3_Witness ==
    /\ Running /\ Len(stack) >= 2
    /\ arr # Slice(input)
    /\ T = "Div"

\* C4: no step faults: the call never panics, both cursors index the active
\* range wherever elements are read or swapped, cur1 -= 1 runs only with
\* cur1 >= 1, and ..cur1 and cur1+1.. lie within the range.
C4_NoFault ==
    /\ mode # "panicked"
    /\ InPass => /\ InRange(Top, Top.cur1)
                 /\ InRange(Top, Top.cur2)
    /\ (Running /\ Top.pc = "advance" /\ ~(Top.cur1 < Top.cur2))
          => Top.cur1 >= 1
    /\ (PassEnded \/ (Running /\ Top.pc = "right"))
          => Top.cur1 + 1 <= Top.len
    /\ \A k \in 1..Len(stack) :
          /\ stack[k].base >= 0
          /\ stack[k].len >= 0
          /\ stack[k].base + stack[k].len <= Len(arr)

\* cur1 has been decremented down to index 0 of a range that holds a pair of
\* incomparable elements.
C4_Witness ==
    /\ PassEnded
    /\ Top.cur1 = 0 /\ Top.len >= 3
    /\ \E i \in 1..(Top.len - 1) :
          ~Comparable(T, At(Top, i).val, At(Top, 0).val)

\* C5: every call terminates; in a pass the distance between the cursors is
\* unchanged by the comparison and swap and drops by exactly one at the
\* advance, so a pass over n >= 2 elements ends after exactly n-1
\* iterations; every recursive call is on a strictly shorter range.
C5_Terminates ==
    /\ [](Running => <>(mode = "returned"))
    /\ [][(SameFrame /\ Top.pc = "while" /\ Top.cur1 # Top.cur2)
             => Dist(stack'[Len(stack)]) = Dist(Top)]_vars
    /\ [][(SameFrame /\ Top.pc = "advance")
             => Dist(stack'[Len(stack)]) = Dist(Top) - 1]_vars
    /\ [](PassEnded => Top.iters = Top.len - 1)
    /\ [](InPass => Top.iters + Dist(Top) = Top.len - 1)
    /\ [](\A k \in 2..Len(stack) : stack[k].len < stack[k-1].len)

C5_Witness ==
    /\ PassEnded
    /\ Len(stack) = 3
    /\ Top.len = 2 /\ Top.iters = 1

\* C6: if the input is already ordered for the requested direction, no swap
\* is performed: in every state of the call and at return every position
\* holds the object it held in the input.
C6_OrderedInputUntouched ==
    (mode \in {"running", "returned"} /\ Ordered(input))
        => arr = Slice(input)

C6_Witness ==
    /\ mode = "returned" /\ ~descending /\ T = "Int"
    /\ input = <<1, 2, 2, 4>>
    /\ arr = Slice(input)

\* C7: for an input with no incomparable elements, the ascending result
\* reversed equals the descending result on the same input.
C7_AscendingReversedIsDescending ==
    (mode = "returned" /\ descending /\ NoIncomparable(input))
        => Reverse(Vals(ascOut)) = Vals(arr)

C7_Witness ==
    /\ mode = "returned" /\ descending /\ T = "Div"
    /\ input = <<2, 4, 1, 2>>
    /\ Vals(ascOut) = <<1, 2, 2, 4>>
    /\ Vals(arr) = <<4, 2, 2, 1>>

\* C8: when a pass ends at p, nothing left of p in the range is on the wrong
\* side of arr[p] and nothing right of p is; p is in neither sub-range of the
\* recursion, and the element stays at p until the whole sort returns.
C8_PivotPlaced ==
    /\ PassEnded =>
          \A i \in 0..(Top.len - 1) :
             LET ord == partial_cmp(T, At(Top, i).val, At(Top, Top.cur1).val)
             IN  /\ i < Top.cur1 =>
                       ord # (IF descending THEN "Less" ELSE "Greater")
                 /\ i > Top.cur1 =>
                       ord # (IF descending THEN "Greater" ELSE "Less")
    /\ \A p \in pivots : arr[p[1]] = p[2]
    /\ \A p \in pivots : \A k \in 1..Len(stack) :
          stack[k].pc = "entry" => p[1] \notin Range(stack[k])
    /\ \A k \in 1..Len(stack) : \A j \in (k+1)..Len(stack) :
          stack[k].pc \in {"right", "return"}
             => (stack[k].base + stack[k].cur1 + 1) \notin Range(stack[j])

C8_Witness ==
    /\ mode = "returned" /\ T = "Div" /\ ~descending
    /\ input = <<4, 3, 1, 2>>
    /\ Cardinality(pivots) >= 2
    /\ \E p \in pivots : p[1] = 3 /\ p[2].val = 2 /\ arr[3] = p[2]

\* C9 as stated: the advance moves the numerically smaller cursor one step
\* toward the other and leaves the other in place.
C9_SmallerCursorAdvances ==
    [][(SameFrame /\ Top.pc = "advance") =>
          LET f == Top
              g == stack'[Len(stack)]
          IN  IF f.cur1 < f.cur2
              THEN g.cur1 = f.cur1 + 1 /\ g.cur2 = f.cur2
              ELSE g.cur2 = f.cur2 + 1 /\ g.cur1 = f.cur1]_vars

\* C9 amended: the advance always moves cur1, whether it is the smaller or
\* the larger cursor, one step toward cur2, and leaves cur2 in place.
C9_Cur1Advances ==
    [][(SameFrame /\ Top.pc = "advance") =>
          LET f == Top
              g == stack'[Len(stack)]
          IN  /\ g.cur2 = f.cur2
              /\ g.cur1 = IF f.cur1 < f.cur2 THEN f.cur1 + 1 ELSE f.cur1 - 1
              /\ Dist(g) = Dist(f) - 1
              /\ arr' = arr]_vars

\* cur1 is the larger cursor and has just been decremented.
C9_Witness ==
    /\ Running /\ Top.pc = "while"
    /\ Top.cur1 > Top.cur2
    /\ Top.iters >= 2
    /\ T = "Int"

\* C10: throughout a pass the element at cur2 is the one that was last in
\* the active range when the pass started, cur2 changes only in a swap, and
\* the pivot at the converged index is that element.
C10_Cur2TracksLast ==
    /\ [](InPass => At(Top, Top.cur2) = Top.last)
    /\ [](\A k \in 1..Len(stack) :
             stack[k].pc \in {"right", "return"}
                => At(stack[k], stack[k].cur1) = stack[k].last)
    /\ [][(SameFrame /\ Top.pc \in {"while", "advance"}
              /\ stack'[Len(stack)].cur2 # Top.cur2) => arr' # arr]_vars

C10_Witness ==
    /\ InPass
    /\ Top.cur2 # Top.len - 1
    /\ Top.cur1 > Top.cur2
    /\ At(Top, Top.cur2) = Top.last
    /\ Top.len = Len(input)

====
